---- MODULE Spec2Model ----
(***************************************************************************)
(* Model of rand_example.py: a mesa model (MyModel) holding ProductionAgent *)
(* objects that accumulate work at every step, optionally scaled by a       *)
(* shared zero-argument randomizer.  Numbers are Python ints (exact,        *)
(* unbounded).                                                              *)
(***************************************************************************)
EXTENDS Integers, Sequences, FiniteSets, TLC

\* ---------------------------------------------------------------- bounds
MaxAgents == 3
MaxSteps == 3
MaxSeqLen == 3

\* values the driver may pass as default_production
ProductionVals == {-1, 0, 10}
\* values a randomizer call may return
DrawVals == {-1, 0, 1, 2}

VARIABLES
    num_agents,   \* MyModel.num_agents
    num_steps,    \* MyModel.num_steps
    agents,       \* MyModel.schedule.agents, in insertion order
    queue,        \* the activation pass in progress inside schedule.step()
    randomizer,   \* the production_randomizer object shared by the agents
    pc,           \* position of the driver: "idle", "polling", "raised"
    output,       \* the lines printed by MyModel.step(): step number, total
    step_calls    \* number of ProductionAgent.step() invocations per agent

vars == <<num_agents, num_steps, agents, queue, randomizer, pc, output, step_calls>>

\* ------------------------------------------------------------ randomizer
\* One outcome of calling the randomizer: it returns v or it raises.
Outcomes == [ok : {TRUE}, v : DrawVals] \cup {[ok |-> FALSE, v |-> 0]}

\* A randomizer callable: it answers its successive calls with the outcomes
\* of draws, cyclically; ncalls is its internal state.  A function always
\* returning c is <<c>>; a callable of the wrong arity always raises.
Randomizers == UNION {[1..n -> Outcomes] : n \in 1..MaxSeqLen}

\* The outcome of the (i+1)-th call of a randomizer with outcomes d.
DrawAt(d, i) == d[(i % Len(d)) + 1]

\* The outcome of the next call self.randfunc().
randfunc == DrawAt(randomizer.draws, randomizer.ncalls)

\* ----------------------------------------------------------------- agent
ProductionAgentInit(unique_id, production, random_function) ==
    [unique_id |-> unique_id,
     randfunc |-> random_function,
     production |-> production,
     work_to_date |-> 0]

\* Variant: the work is assigned instead of accumulated.
StepNoRand_Assign(a) == [a EXCEPT !.work_to_date = a.production]

\* if self.randfunc is None: self.work_to_date += self.production
StepNoRand(a) == [a EXCEPT !.work_to_date = @ + a.production]

\* Variant: the value returned by the randomizer is dropped.
StepRand_IgnoreDraw(a, v) == [a EXCEPT !.work_to_date = @ + a.production]

\* Variant: the step's production is subtracted.
StepRand_Subtract(a, v) == [a EXCEPT !.work_to_date = @ - a.production * v]

\* Variant: the step also rescales the agent's production rate.
StepRand_Rescale(a, v) ==
    [a EXCEPT !.work_to_date = @ + a.production * v, !.production = @ * v]

\* else: self.work_to_date += self.production * self.randfunc()
StepRand(a, v) == [a EXCEPT !.work_to_date = @ + a.production * v]

\* ----------------------------------------------------------------- model
\* Variant: every agent is given the identity 0.
MyModelInit_SameId(n, default_production, production_randomizer) ==
    [i \in 1..n |->
        ProductionAgentInit(0, default_production, production_randomizer)]

\* for i in range(num_agents): schedule.add(ProductionAgent(i, ...))
MyModelInit(n, default_production, production_randomizer) ==
    [i \in 1..n |->
        ProductionAgentInit(i - 1, default_production, production_randomizer)]

RECURSIVE SumWork(_)
SumWork(ags) ==
    IF ags = <<>> THEN 0
    ELSE ags[1].work_to_date + SumWork(Tail(ags))

\* Variant: only the first agent's work is reported.
total_production_First ==
    IF agents = <<>> THEN 0 ELSE agents[1].work_to_date

\* sum(a.work_to_date for a in self.schedule.agents)
total_production == SumWork(agents)

\* RandomActivation: the orders in which one pass may activate the agents.
ActivationOrders(n) ==
    {q \in [1..n -> 1..n] : \A i, j \in 1..n : i # j => q[i] # q[j]}

Init ==
    \E n \in 0..MaxAgents, p \in ProductionVals :
        /\ \/ /\ randomizer = [draws |-> <<>>, ncalls |-> 0]
              /\ agents = MyModelInit(n, p, "None")
           \/ \E d \in Randomizers :
              /\ randomizer = [draws |-> d, ncalls |-> 0]
              /\ agents = MyModelInit(n, p, "callable")
        /\ num_agents = n
        /\ num_steps = 0
        /\ queue = <<>>
        /\ pc = "idle"
        /\ output = <<>>
        /\ step_calls = [i \in 1..n |-> 0]

\* Variant: the step counter is advanced by two.
ModelStepBegin_Twice ==
    /\ pc = "idle"
    /\ num_steps < MaxSteps
    /\ num_steps' = num_steps + 2
    /\ \E q \in ActivationOrders(Len(agents)) : queue' = q
    /\ pc' = "polling"
    /\ UNCHANGED <<num_agents, agents, randomizer, output, step_calls>>

\* Variant: the call self.schedule.step() is left out.
ModelStepBegin_NoPass ==
    /\ pc = "idle"
    /\ num_steps < MaxSteps
    /\ num_steps' = num_steps + 1
    /\ queue' = <<>>
    /\ pc' = "polling"
    /\ UNCHANGED <<num_agents, agents, randomizer, output, step_calls>>

\* MyModel.step(), up to the start of the scheduler's pass.
ModelStepBegin ==
    /\ pc = "idle"
    /\ num_steps < MaxSteps
    /\ num_steps' = num_steps + 1
    /\ \E q \in ActivationOrders(Len(agents)) : queue' = q
    /\ pc' = "polling"
    /\ UNCHANGED <<num_agents, agents, randomizer, output, step_calls>>

\* ProductionAgent.step() of the next agent of the pass, no randomizer.
AgentStepNoRand ==
    /\ pc = "polling"
    /\ queue # <<>>
    /\ agents[Head(queue)].randfunc = "None"
    /\ agents' = [agents EXCEPT ![Head(queue)] = StepNoRand(@)]
    /\ step_calls' = [step_calls EXCEPT ![Head(queue)] = @ + 1]
    /\ queue' = Tail(queue)
    /\ UNCHANGED <<num_agents, num_steps, randomizer, pc, output>>

\* Variant: the randomizer is called twice and the first value is dropped.
AgentStepRand_TwoCalls ==
    /\ pc = "polling"
    /\ queue # <<>>
    /\ agents[Head(queue)].randfunc # "None"
    /\ randfunc.ok
    /\ DrawAt(randomizer.draws, randomizer.ncalls + 1).ok
    /\ randomizer' = [randomizer EXCEPT !.ncalls = @ + 2]
    /\ agents' = [agents EXCEPT ![Head(queue)] =
                    StepRand(@, DrawAt(randomizer.draws, randomizer.ncalls + 1).v)]
    /\ step_calls' = [step_calls EXCEPT ![Head(queue)] = @ + 1]
    /\ queue' = Tail(queue)
    /\ UNCHANGED <<num_agents, num_steps, pc, output>>

\* ProductionAgent.step() of the next agent, the randomizer returns a value.
AgentStepRand ==
    /\ pc = "polling"
    /\ queue # <<>>
    /\ agents[Head(queue)].randfunc # "None"
    /\ randfunc.ok
    /\ randomizer' = [randomizer EXCEPT !.ncalls = @ + 1]
    /\ agents' = [agents EXCEPT ![Head(queue)] = StepRand(@, randfunc.v)]
    /\ step_calls' = [step_calls EXCEPT ![Head(queue)] = @ + 1]
    /\ queue' = Tail(queue)
    /\ UNCHANGED <<num_agents, num_steps, pc, output>>

\* Variant: the exception is swallowed and the pass goes on.
AgentStepRaise_Swallow ==
    /\ pc = "polling"
    /\ queue # <<>>
    /\ agents[Head(queue)].randfunc # "None"
    /\ ~randfunc.ok
    /\ randomizer' = [randomizer EXCEPT !.ncalls = @ + 1]
    /\ step_calls' = [step_calls EXCEPT ![Head(queue)] = @ + 1]
    /\ queue' = Tail(queue)
    /\ UNCHANGED <<num_agents, num_steps, agents, pc, output>>

\* ProductionAgent.step() of the next agent, the randomizer raises: the
\* exception leaves step(), schedule.step() and MyModel.step() uncaught.
AgentStepRaise ==
    /\ pc = "polling"
    /\ queue # <<>>
    /\ agents[Head(queue)].randfunc # "None"
    /\ ~randfunc.ok
    /\ randomizer' = [randomizer EXCEPT !.ncalls = @ + 1]
    /\ step_calls' = [step_calls EXCEPT ![Head(queue)] = @ + 1]
    /\ pc' = "raised"
    /\ UNCHANGED <<num_agents, num_steps, agents, queue, output>>

\* MyModel.step() after the pass: sum the work and print the line.
ModelStepEnd ==
    /\ pc = "polling"
    /\ queue = <<>>
    /\ output' = Append(output, [step |-> num_steps, total |-> total_production])
    /\ pc' = "idle"
    /\ UNCHANGED <<num_agents, num_steps, agents, queue, randomizer, step_calls>>

Next ==
    \/ ModelStepBegin
    \/ AgentStepNoRand
    \/ AgentStepRand
    \/ AgentStepRaise
    \/ ModelStepEnd

Spec == Init /\ [][Next]_vars


\* ------------------------------------------------------------ properties
AgentIx == 1..Len(agents)

InQueue(i) == \E k \in 1..Len(queue) : queue[k] = i

Callable == \A i \in AgentIx : agents[i].randfunc # "None"

NoRandomizer == \A i \in AgentIx : agents[i].randfunc = "None"

\* the randomizer is a function that always returns c
AlwaysReturns(c) ==
    /\ randomizer.draws # <<>>
    /\ \A j \in 1..Len(randomizer.draws) :
          randomizer.draws[j].ok /\ randomizer.draws[j].v = c

\* the sum of the work of the first n agents
RECURSIVE WorkOfFirst(_)
WorkOfFirst(n) ==
    IF n = 0 THEN 0 ELSE agents[n].work_to_date + WorkOfFirst(n - 1)

\* the sum of the values of the first n calls of a randomizer
RECURSIVE SumDraws(_, _)
SumDraws(d, n) ==
    IF n = 0 THEN 0 ELSE DrawAt(d, n - 1).v + SumDraws(d, n - 1)

LastLine == output[Len(output)]

\* C1: with no randomizer, after k model steps every agent's work_to_date
\* equals production * k.
C1_NoRandomizerWork ==
    (pc = "idle" /\ NoRandomizer) =>
        \A i \in AgentIx :
            agents[i].work_to_date = agents[i].production * num_steps

C1_Witness ==
    /\ pc = "idle" /\ num_steps = 3 /\ Len(agents) = 1
    /\ agents[1].randfunc = "None"
    /\ agents[1].production = 10
    /\ agents[1].work_to_date = 30
    /\ LastLine.total = 30

\* C2: with a randomizer always returning c, after k model steps every
\* agent's work_to_date equals production * c * k; each agent step adds
\* production * v, v being the value of the one randomizer call it makes.
C2_ConstantAfterSteps ==
    \A c \in DrawVals :
        (pc = "idle" /\ Callable /\ AlwaysReturns(c)) =>
            \A i \in AgentIx :
                agents[i].work_to_date = agents[i].production * c * num_steps

C2_StepAddsDraw ==
    \A i \in AgentIx :
        (step_calls'[i] # step_calls[i] /\ agents[i].randfunc # "None"
                /\ pc' # "raised") =>
            /\ randomizer'.ncalls = randomizer.ncalls + 1
            /\ agents'[i].work_to_date =
                  agents[i].work_to_date + agents[i].production * randfunc.v

C2_DeterministicRandomizer == []C2_ConstantAfterSteps /\ [][C2_StepAddsDraw]_vars

C2_Witness ==
    /\ pc = "idle" /\ num_steps = 3 /\ Len(agents) = 2
    /\ AlwaysReturns(2)
    /\ \A i \in AgentIx :
          agents[i].production = 10 /\ agents[i].work_to_date = 60

\* C3: the total reported by the k-th model step is the sum of the work of
\* all agents after that step's pass, every agent having been stepped in it.
C3_ReportedTotal ==
    (pc = "idle" /\ num_steps >= 1) =>
        /\ Len(output) = num_steps
        /\ LastLine.total = WorkOfFirst(Len(agents))
        /\ \A i \in AgentIx : step_calls[i] = num_steps

C3_Witness ==
    /\ pc = "idle" /\ num_steps = 3 /\ Len(agents) = 2
    /\ AlwaysReturns(1)
    /\ \A i \in AgentIx : agents[i].production = 10
    /\ LastLine.total = 60

\* C4: num_steps starts at 0, grows by exactly 1 at each model step, never
\* decreases, and the k-th model step reports step number k.
C4_CounterState ==
    /\ num_steps = Len(output) + (IF pc = "idle" THEN 0 ELSE 1)
    /\ \A k \in 1..Len(output) : output[k].step = k

C4_CounterMove ==
    \/ num_steps' = num_steps
    \/ pc = "idle" /\ pc' = "polling" /\ num_steps' = num_steps + 1

C4_StepCounter == []C4_CounterState /\ [][C4_CounterMove]_vars

C4_Witness ==
    /\ pc = "idle" /\ num_steps = 3 /\ Len(output) = 3 /\ LastLine.step = 3

\* C5 as stated: no step leaves an agent's work_to_date smaller, for any
\* production rate and any numeric multiplier.
C5_Original ==
    [][\A i \in AgentIx :
          agents'[i].work_to_date >= agents[i].work_to_date]_vars

\* the multiplier the next agent step applies
Variate ==
    IF NoRandomizer THEN 1 ELSE IF randfunc.ok THEN randfunc.v ELSE 0

\* C5 amended: a step whose production * multiplier is not negative leaves no
\* agent's work_to_date smaller (so work is non-decreasing for non-negative
\* production rates and multipliers).
C5_NonNegativeStep ==
    [][\A i \in AgentIx :
          (agents[i].production * Variate >= 0) =>
              agents'[i].work_to_date >= agents[i].work_to_date]_vars

C5_Witness ==
    /\ pc = "polling"
    /\ \E i \in AgentIx :
          /\ agents[i].production = 10
          /\ step_calls[i] = 2
          /\ agents[i].work_to_date = 30
    /\ \A j \in 1..Len(randomizer.draws) :
          randomizer.draws[j].ok /\ randomizer.draws[j].v >= 0

\* C6: one model step invokes step() of every registered agent exactly once,
\* in whatever order; after k model steps each agent was stepped k times.
C6_OncePerPass ==
    /\ pc = "idle" => \A i \in AgentIx : step_calls[i] = num_steps
    /\ pc = "polling" =>
          \A i \in AgentIx :
              step_calls[i] = (IF InQueue(i) THEN num_steps - 1 ELSE num_steps)

C6_Witness ==
    /\ pc = "polling" /\ num_steps = 2 /\ Len(agents) = 3
    /\ queue = <<1>>
    /\ step_calls = <<1, 2, 2>>

\* C7: the model holds exactly num_agents agents with the distinct identities
\* 0 .. num_agents-1 in insertion order, and no step changes the set of agents.
C7_AgentSetState ==
    /\ Len(agents) = num_agents
    /\ \A i \in AgentIx : agents[i].unique_id = i - 1
    /\ \A i, j \in AgentIx : i # j => agents[i].unique_id # agents[j].unique_id

C7_AgentSetMove ==
    /\ num_agents' = num_agents
    /\ Len(agents') = Len(agents)
    /\ \A i \in AgentIx : agents'[i].unique_id = agents[i].unique_id

C7_AgentSet == []C7_AgentSetState /\ [][C7_AgentSetMove]_vars

C7_Witness ==
    /\ num_agents = 3 /\ num_steps = 2 /\ pc = "idle"
    /\ agents[3].unique_id = 2 /\ agents[3].work_to_date # 0

\* C8: an agent's step changes only that agent's work_to_date; production
\* rates are constant and an agent's work changes only through its own step.
C8_AgentStepFrame ==
    \A i \in AgentIx :
        /\ step_calls'[i] # step_calls[i] =>
              /\ agents'[i] =
                    [agents[i] EXCEPT !.work_to_date = agents'[i].work_to_date]
              /\ \A j \in AgentIx \ {i} : agents'[j] = agents[j]
              /\ num_steps' = num_steps
              /\ num_agents' = num_agents
        /\ agents'[i].production = agents[i].production
        /\ agents'[i].work_to_date # agents[i].work_to_date =>
              step_calls'[i] = step_calls[i] + 1

C8_OwnWorkOnly == [][C8_AgentStepFrame]_vars

C8_Witness ==
    /\ pc = "polling" /\ Len(agents) = 2 /\ Len(queue) = 1
    /\ Callable
    /\ agents[queue[1]].work_to_date = 10
    /\ \E i \in AgentIx :
          /\ ~InQueue(i)
          /\ step_calls[i] = 2
          /\ agents[i].production = 10
          /\ agents[i].work_to_date = 30

C10_RaiseState ==
    pc = "raised" =>
        /\ num_steps = Len(output) + 1
        /\ queue # <<>>
        /\ \A i \in AgentIx :
              step_calls[i] =
                  (IF InQueue(i) /\ i # Head(queue)
                      THEN num_steps - 1 ELSE num_steps)

C10_RaiseMove ==
    /\ pc # "raised"
    /\ (pc = "polling" /\ queue # <<>> /\ Callable /\ ~randfunc.ok) =>
          /\ pc' = "raised"
          /\ agents' = agents
          /\ num_steps' = num_steps
          /\ output' = output

C10_RaisePropagates == []C10_RaiseState /\ [][C10_RaiseMove]_vars

C10_Witness ==
    /\ pc = "raised" /\ num_steps = 1 /\ output = <<>>
    /\ Len(agents) = 3 /\ Len(queue) = 2
    /\ \E i \in AgentIx :
          /\ ~InQueue(i)
          /\ agents[i].production = 10
          /\ agents[i].work_to_date = 20
    /\ \A i \in AgentIx : InQueue(i) => agents[i].work_to_date = 0
====
